---- MODULE Spec2Model ----
(***************************************************************************)
(* A model of the masonry pass/constraint core:                            *)
(*   - BoxConstraints (masonry_core/src/core/box_constraints.rs),          *)
(*   - Image::layout  (masonry/src/widgets/image.rs),                      *)
(*   - mutate_widget / run_mutate_pass (masonry_core/src/passes/mutate.rs).*)
(*                                                                         *)
(* f64 values are modelled as extended rationals <<n, d>>: a finite value  *)
(* is n/d in lowest terms with d > 0, and d = 0 encodes +infinity <<1,0>>, *)
(* -infinity <<-1,0>> and NaN <<0,0>>.  Arithmetic is exact (no rounding   *)
(* to 53 bits) and the sign of zero is not represented; comparisons,       *)
(* division by zero, infinities and NaN follow IEEE 754.                   *)
(***************************************************************************)
EXTENDS Integers, Sequences, FiniteSets, TLC

VARIABLES
    bc,        \* the BoxConstraints value under consideration
    bc_valid,  \* history: bc was built from arguments with 0 <= min <= max
    op,        \* the last BoxConstraints / layout operation applied
    args,      \* the inputs of that operation
    res,       \* its result
    prev,      \* the result of the operation before it
    old,       \* the BoxConstraints value the operation was applied to
    parent,           \* widget_arena: the parent of each widget (0: the root has none)
    widget,           \* widget_arena: each widget's content (the closure that last wrote it)
    request,          \* WidgetState: each widget's local invalidity flags
    needs,            \* WidgetState: each widget's aggregated invalidity flags
    mutate_callbacks, \* global_state.mutate_callbacks: the pending deferred mutations
    callbacks,        \* run_mutate_pass: the taken callbacks not yet run
    pc,               \* where the driver is in its cycle of passes
    cursor,           \* the layout pass: the next widget to lay out
    next_token,       \* the number of mutation closures created so far
    executed,         \* history: the closures invoked, in order, with their target
    enqueued,         \* history: the deferred closures, in enqueue order
    taken,            \* history: the closures the last run_mutate_pass took
    pass_start,       \* history: Len(executed) when that pass began
    layout_enq,       \* history: the closures enqueued during the layout pass under way
    earlier_layout_enq, \* history: those enqueued during earlier layout passes
    snapshot,         \* history: widget and request as the layout pass under way found them
    mutated,          \* history: the target of the mutate_widget call that just returned (0: none)
    call,             \* history: the mutate_widget call just made: its id, closure and returned value
    drain_enq,        \* history: the closures enqueued during the last run_mutate_pass, in order
    prev_drain_enq    \* history: those enqueued during the run_mutate_pass before it

bcvars == <<bc, bc_valid, op, args, res, prev, old>>

treevars == <<parent, widget, request, needs, mutate_callbacks, callbacks, pc, cursor,
              next_token, executed, enqueued, taken, pass_start, layout_enq,
              earlier_layout_enq, snapshot, mutated, call, drain_enq, prev_drain_enq>>

vars == <<bcvars, treevars>>

----------------------------------------------------------------------------
(* f64 *)

NaN == <<0, 0>>
INFINITY == <<1, 0>>
NEG_INFINITY == <<-1, 0>>

AbsInt(i) == IF i < 0 THEN -i ELSE i

RECURSIVE Gcd(_, _)
Gcd(a, b) == IF b = 0 THEN a ELSE Gcd(b, a % b)

\* n/d in lowest terms, for d > 0
Frac(n, d) == LET g == Gcd(AbsInt(n), d) IN <<n \div g, d \div g>>

Num(i) == <<i, 1>>

is_nan(x) == x = NaN
is_finite(x) == x[2] > 0
is_infinite(x) == x[2] = 0 /\ x[1] # 0
Sign(x) == IF x[1] > 0 THEN 1 ELSE IF x[1] < 0 THEN -1 ELSE 0

\* x <= y and x < y; false when either side is NaN
Le(x, y) ==
    /\ ~is_nan(x)
    /\ ~is_nan(y)
    /\ IF x[2] = 0 /\ y[2] = 0 THEN x[1] <= y[1]
       ELSE x[1] * y[2] <= y[1] * x[2]

Lt(x, y) ==
    /\ ~is_nan(x)
    /\ ~is_nan(y)
    /\ IF x[2] = 0 /\ y[2] = 0 THEN x[1] < y[1]
       ELSE x[1] * y[2] < y[1] * x[2]

Neg(x) == <<-x[1], x[2]>>

abs(x) == <<AbsInt(x[1]), x[2]>>

Add(x, y) ==
    IF is_nan(x) \/ is_nan(y) THEN NaN
    ELSE IF x[2] = 0 /\ y[2] = 0 THEN (IF x[1] = y[1] THEN x ELSE NaN)
    ELSE IF x[2] = 0 THEN x
    ELSE IF y[2] = 0 THEN y
    ELSE Frac(x[1] * y[2] + y[1] * x[2], x[2] * y[2])

Sub(x, y) == Add(x, Neg(y))

Mul(x, y) ==
    IF is_nan(x) \/ is_nan(y) THEN NaN
    ELSE IF x[2] = 0 \/ y[2] = 0
         THEN (IF Sign(x) * Sign(y) = 0 THEN NaN ELSE <<Sign(x) * Sign(y), 0>>)
    ELSE Frac(x[1] * y[1], x[2] * y[2])

\* 1/x; the zero is the positive zero
recip(x) ==
    IF is_nan(x) THEN NaN
    ELSE IF x[2] = 0 THEN Num(0)
    ELSE IF x[1] = 0 THEN INFINITY
    ELSE IF x[1] > 0 THEN <<x[2], x[1]>>
    ELSE <<-x[2], -x[1]>>

Div(x, y) == Mul(x, recip(y))

\* f64::max and f64::min: a NaN operand is ignored
fmax(x, y) == IF is_nan(x) THEN y ELSE IF is_nan(y) THEN x ELSE IF Lt(x, y) THEN y ELSE x
fmin(x, y) == IF is_nan(x) THEN y ELSE IF is_nan(y) THEN x ELSE IF Lt(y, x) THEN y ELSE x

\* rounding away from zero to an integer (FloatExt::expand)
expand_f64(x) ==
    IF x[2] = 0 THEN x
    ELSE IF x[1] >= 0 THEN Num(-((-x[1]) \div x[2]))
    ELSE Num(x[1] \div x[2])

----------------------------------------------------------------------------
(* Size *)

Size(w, h) == [width |-> w, height |-> h]
ZERO == Size(Num(0), Num(0))

expand(size) == Size(expand_f64(size.width), expand_f64(size.height))

clamp(size, lo, hi) ==
    Size(fmin(fmax(size.width, lo.width), hi.width),
         fmin(fmax(size.height, lo.height), hi.height))

is_zero_area(size) == Mul(size.width, size.height) = Num(0)

----------------------------------------------------------------------------
(* BoxConstraints *)

UNBOUNDED == [min |-> ZERO, max |-> Size(INFINITY, INFINITY)]

new(min, max) == [min |-> expand(min), max |-> expand(max)]

tight(size) == LET s == expand(size) IN [min |-> s, max |-> s]

\* a loosen that leaves the minimum as it was
loosen_keep_min(self) == [min |-> self.min, max |-> self.max]

loosen(self) == [min |-> ZERO, max |-> self.max]

constrain_no_upper(self, size) ==
    LET e == expand(size) IN
    Size(fmax(e.width, self.min.width), fmax(e.height, self.min.height))

constrain(self, size) == clamp(expand(size), self.min, self.max)

is_width_bounded(self) == is_finite(self.max.width)
is_height_bounded(self) == is_finite(self.max.height)

shrink_no_floor(self, diff) ==
    LET d == expand(diff) IN
    new(Size(Sub(self.min.width, d.width), Sub(self.min.height, d.height)),
        Size(fmax(Sub(self.max.width, d.width), Num(0)),
             fmax(Sub(self.max.height, d.height), Num(0))))

\* a shrink that does not round diff before subtracting it
shrink_unrounded(self, diff) ==
    new(Size(fmax(Sub(self.min.width, diff.width), Num(0)),
             fmax(Sub(self.min.height, diff.height), Num(0))),
        Size(fmax(Sub(self.max.width, diff.width), Num(0)),
             fmax(Sub(self.max.height, diff.height), Num(0))))

shrink(self, diff) ==
    LET d == expand(diff) IN
    new(Size(fmax(Sub(self.min.width, d.width), Num(0)),
             fmax(Sub(self.min.height, d.height), Num(0))),
        Size(fmax(Sub(self.max.width, d.width), Num(0)),
             fmax(Sub(self.max.height, d.height), Num(0))))

contains(self, size) ==
    /\ Le(self.min.width, size.width) /\ Le(size.width, self.max.width)
    /\ Le(self.min.height, size.height) /\ Le(size.height, self.max.height)

\* A call either returns a Size or panics.
Ok(size) == [panicked |-> FALSE, size |-> size]
Panic == [panicked |-> TRUE, size |-> Size(NaN, NaN)]

\* lines 233-300: the ideal size is outside the box
aspect_ratio_outside(self, aspect_ratio, width) ==
    LET min_w_min_h == Div(self.min.height, self.min.width)
        max_w_min_h == Div(self.min.height, self.max.width)
        min_w_max_h == Div(self.max.height, self.min.width)
        max_w_max_h == Div(self.max.height, self.max.width)
    IN  IF Lt(min_w_max_h, aspect_ratio)
        THEN Size(self.min.width, self.max.height)
        ELSE IF Lt(aspect_ratio, max_w_min_h)
        THEN Size(self.max.width, self.min.height)
        ELSE IF Lt(min_w_min_h, aspect_ratio)
        THEN IF Lt(width, self.min.width)
             THEN Size(self.min.width, Mul(self.min.width, aspect_ratio))
             ELSE IF Lt(aspect_ratio, max_w_max_h)
             THEN Size(self.max.width, Mul(self.max.width, aspect_ratio))
             ELSE Size(Mul(self.max.height, recip(aspect_ratio)), self.max.height)
        ELSE IF Lt(width, self.min.width)
             THEN Size(Mul(self.min.height, recip(aspect_ratio)), self.min.height)
             ELSE IF Lt(max_w_max_h, aspect_ratio)
             THEN Size(Mul(self.max.height, recip(aspect_ratio)), self.max.height)
             ELSE Size(self.max.width, Mul(self.max.width, aspect_ratio))

constrain_aspect_ratio_no_ideal(self, aspect_ratio, width) ==
    IF ~is_finite(aspect_ratio) \/ ~is_finite(width)
       \/ ~Le(Num(0), aspect_ratio) \/ ~Le(Num(0), width)
    THEN Panic
    ELSE Ok(aspect_ratio_outside(self, abs(aspect_ratio), abs(width)))

\* constrain_aspect_ratio without the assertion that width is finite
constrain_aspect_ratio_any_width(self, aspect_ratio, width) ==
    IF ~is_finite(aspect_ratio)
       \/ ~Le(Num(0), aspect_ratio) \/ ~Le(Num(0), width)
    THEN Panic
    ELSE LET ideal_size == Size(width, Mul(width, aspect_ratio))
         IN  IF contains(self, ideal_size) THEN Ok(ideal_size)
             ELSE Ok(aspect_ratio_outside(self, abs(aspect_ratio), abs(width)))

constrain_aspect_ratio(self, aspect_ratio, width) ==
    IF ~is_finite(aspect_ratio) \/ ~is_finite(width)
       \/ ~Le(Num(0), aspect_ratio) \/ ~Le(Num(0), width)
    THEN Panic
    ELSE LET ideal_size == Size(width, Mul(width, aspect_ratio))
         IN  IF contains(self, ideal_size)
             THEN Ok(ideal_size)
             ELSE Ok(aspect_ratio_outside(self, abs(aspect_ratio), abs(width)))

----------------------------------------------------------------------------
(* Image::layout *)

ObjectFit == {"Contain", "Cover", "Fill", "FitHeight", "FitWidth", "None", "ScaleDown"}

\* image_width, image_height: the u32 dimensions of the image buffer
layout(object_fit, image_width, image_height, self) ==
    LET image_size == Size(Num(image_width), Num(image_height))
        image_aspect_ratio == Div(image_size.height, image_size.width)
    IN  IF is_zero_area(image_size) THEN Ok(self.min)
        ELSE CASE object_fit = "Contain" ->
                    constrain_aspect_ratio(self, image_aspect_ratio, image_size.width)
               [] object_fit = "Cover" ->
                    Ok(Size(self.max.width, Mul(self.max.width, image_aspect_ratio)))
               [] object_fit = "Fill" -> Ok(self.max)
               [] object_fit = "FitHeight" ->
                    Ok(Size(Div(self.max.height, image_aspect_ratio), self.max.height))
               [] object_fit = "FitWidth" ->
                    Ok(Size(self.max.width, Mul(self.max.width, image_aspect_ratio)))
               [] object_fit = "None" -> Ok(image_size)
               [] object_fit = "ScaleDown" ->
                    IF ~contains(self, image_size)
                    THEN constrain_aspect_ratio(self, image_aspect_ratio, image_size.width)
                    ELSE Ok(image_size)

----------------------------------------------------------------------------
(* The widget tree: WidgetArena, WidgetState, the deferred mutations *)

NumNodes == 3
MaxMutations == 2

\* The WidgetIds in the arena; the root is 1 and a parent precedes its children.
Nodes == 1..NumNodes

\* a WidgetId that is not (or no longer) in the arena
StaleId == NumNodes + 1

WidgetIds == Nodes \cup {StaleId}

\* the invalidity flags of a WidgetState
Kinds == {"layout", "paint"}

\* The tree shapes: every way to hang widget n under an earlier widget.
TreeShapes == {p \in [Nodes -> 0..NumNodes] : \A n \in Nodes : IF n = 1 THEN p[n] = 0 ELSE p[n] \in 1..(n - 1)}

\* widget_arena.parent_of(id); 0 stands for None
parent_of(id) == parent[id]

children(id) == {c \in Nodes : parent[c] = id}

RECURSIVE Descendants(_)
Descendants(id) ==
    LET cs == {c \in Nodes : parent[c] = id}
    IN  cs \cup UNION {Descendants(c) : c \in cs}

RECURSIVE PathToRoot(_)
PathToRoot(id) == IF id = 0 THEN {} ELSE {id} \cup PathToRoot(parent[id])

\* merge_state_up(arena, id): fold the state of id into its parent's aggregated flags
merge_state_up(flags, id) ==
    IF parent_of(id) = 0 THEN flags
    ELSE [flags EXCEPT ![parent_of(id)] = @ \cup flags[id]]

\* a merge that stops at the parent of the target
merge_into_parent_only(flags, current_id) == merge_state_up(flags, current_id)

\* mutate_widget, lines 48-53: merge all state changes up to the root
RECURSIVE merge_up_to_root(_, _)
merge_up_to_root(flags, current_id) ==
    IF current_id = 0 THEN flags
    ELSE merge_up_to_root(merge_state_up(flags, current_id), parent_of(current_id))

\* A deferred mutation: the target and the closure (named by its token).
MutateCallback(id, token) == [id |-> id, token |-> token]

\* what a closure can do with its WidgetMut: request passes for the target
\* (MutateCtx::request_layout, request_render) and defer a mutation of the
\* target or of one of its children (mutate_self_later, mutate_later); 0: none
Closures(id) == [req : SUBSET Kinds, later : {0, id} \cup children(id)]

Tokens(log) == [i \in 1..Len(log) |-> log[i].token]

\* what closure `token` returns (the R of mutate_fn): a value that names the
\* closure; 0 is not the return value of any closure
ReturnValue(token) == token

\* no mutate_widget call has just been made
NoCall == [id |-> 0, token |-> 0, ret |-> 0]

\* every widget starts with all its flags invalid, and nothing is pending
TreeCreated ==
    /\ widget = [n \in Nodes |-> 0]
    /\ request = [n \in Nodes |-> Kinds]
    /\ needs = [n \in Nodes |-> Kinds]
    /\ mutate_callbacks = <<>>
    /\ callbacks = <<>>
    /\ pc = "idle"
    /\ cursor = 0
    /\ next_token = 0
    /\ executed = <<>>
    /\ enqueued = <<>>
    /\ taken = <<>>
    /\ pass_start = 0
    /\ layout_enq = {}
    /\ earlier_layout_enq = {}
    /\ snapshot = [widget |-> widget, request |-> request, needs |-> needs]
    /\ mutated = 0
    /\ call = NoCall
    /\ drain_enq = <<>>
    /\ prev_drain_enq = <<>>

\* the tree variables of a run that never touches the tree
TreeStart == parent = [n \in Nodes |-> n - 1] /\ TreeCreated

----------------------------------------------------------------------------
(* Inputs *)

MaxCoord == 3

Coords == {Num(i) : i \in 0..MaxCoord}

\* arguments of new and tight: whole, fractional, negative and unbounded
NewArgs == Coords \cup {Num(-1), Frac(1, 2), INFINITY}

\* arguments of shrink
ShrinkArgs == {Num(-1), Frac(-1, 2), Num(0), Frac(1, 2), Num(2), INFINITY, NaN}

\* components of the constraints handed to a layout call
LayoutCoords == Coords \cup {INFINITY}

\* sizes handed to constrain
ConstrainArgs == {Num(-1), Num(0), Frac(1, 2), Frac(3, 2), Num(MaxCoord + 1), INFINITY, NaN}

\* aspect ratios and widths handed to constrain_aspect_ratio
Ratios == {Num(0), Frac(1, 2), Num(1), Num(2), Num(-1), INFINITY, NaN}
Widths == {Num(0), Frac(1, 2), Frac(3, 2), Num(-1), INFINITY, NaN}
              \cup {Num(i) : i \in 1..(MaxCoord + 1)}

\* image buffer dimensions (u32)
ImageDims == 0..(MaxCoord + 1)

NoArgs == [a |-> Num(0), b |-> Num(0), c |-> Num(0), d |-> Num(0), fit |-> ""]
Args2(a, b) == [NoArgs EXCEPT !.a = a, !.b = b]

Components(b) == {b.min.width, b.min.height, b.max.width, b.max.height}

\* 0 <= min <= max on both axes
NonNegOrdered(lo, hi) ==
    /\ Le(Num(0), lo.width) /\ Le(lo.width, hi.width)
    /\ Le(Num(0), lo.height) /\ Le(lo.height, hi.height)

----------------------------------------------------------------------------
(* The life of a BoxConstraints value: construction, then loosen / shrink *)

\* no BoxConstraints call made yet
BcStart ==
    /\ bc = UNBOUNDED
    /\ bc_valid = TRUE
    /\ op = "start"
    /\ args = NoArgs
    /\ res = Ok(ZERO)
    /\ prev = Ok(ZERO)
    /\ old = UNBOUNDED

InitBC == BcStart /\ TreeStart

BcNew ==
    /\ op = "start"
    /\ \E a, b, c, d \in NewArgs :
        /\ bc' = new(Size(a, b), Size(c, d))
        /\ bc_valid' = NonNegOrdered(Size(a, b), Size(c, d))
        /\ args' = [NoArgs EXCEPT !.a = a, !.b = b, !.c = c, !.d = d]
    /\ op' = "new"
    /\ UNCHANGED <<res, prev, old>>
    /\ UNCHANGED treevars

BcTight ==
    /\ op = "start"
    /\ \E a, b \in NewArgs :
        /\ bc' = tight(Size(a, b))
        /\ bc_valid' = NonNegOrdered(Size(a, b), Size(a, b))
        /\ args' = Args2(a, b)
    /\ op' = "tight"
    /\ UNCHANGED <<res, prev, old>>
    /\ UNCHANGED treevars

BcUnbounded ==
    /\ op = "start"
    /\ bc' = UNBOUNDED
    /\ bc_valid' = TRUE
    /\ op' = "UNBOUNDED"
    /\ UNCHANGED <<args, res, prev, old>>
    /\ UNCHANGED treevars

BcLoosen ==
    /\ op # "start"
    /\ bc' = loosen(bc)
    /\ old' = bc
    /\ op' = "loosen"
    /\ args' = NoArgs
    /\ UNCHANGED <<bc_valid, res, prev>>
    /\ UNCHANGED treevars

BcShrink ==
    /\ op # "start"
    /\ \E a, b \in ShrinkArgs :
        /\ bc' = shrink(bc, Size(a, b))
        /\ args' = Args2(a, b)
    \* the model stops growing a value past the coordinates it was built from
    /\ \A x \in Components(bc') : is_finite(x) => Le(x, Num(MaxCoord))
    /\ old' = bc
    /\ op' = "shrink"
    /\ UNCHANGED <<bc_valid, res, prev>>
    /\ UNCHANGED treevars

NextBC == BcNew \/ BcTight \/ BcUnbounded \/ BcLoosen \/ BcShrink

SpecBC == InitBC /\ [][NextBC]_vars

----------------------------------------------------------------------------
(* One layout-time call on a BoxConstraints value *)

InitLayout ==
    /\ \E a, b, c, d \in LayoutCoords : bc = new(Size(a, b), Size(c, d))
    /\ bc_valid = NonNegOrdered(bc.min, bc.max)
    /\ op = "start"
    /\ args = NoArgs
    /\ res = Ok(ZERO)
    /\ prev = Ok(ZERO)
    /\ old = bc
    /\ TreeStart

Constrain ==
    /\ op = "start"
    /\ \E a, b \in ConstrainArgs :
        /\ res' = Ok(constrain(bc, Size(a, b)))
        /\ args' = Args2(a, b)
    /\ op' = "constrain"
    /\ UNCHANGED <<bc, bc_valid, prev, old>>
    /\ UNCHANGED treevars

ConstrainAspectRatio ==
    /\ op = "start"
    /\ \E aspect_ratio \in Ratios, width \in Widths :
        /\ res' = constrain_aspect_ratio(bc, aspect_ratio, width)
        /\ args' = Args2(aspect_ratio, width)
    /\ op' = "constrain_aspect_ratio"
    /\ UNCHANGED <<bc, bc_valid, prev, old>>
    /\ UNCHANGED treevars

\* the caller feeds the returned width back in, with the same ratio
Reapply ==
    /\ op = "constrain_aspect_ratio"
    /\ ~res.panicked
    /\ contains(bc, res.size)
    /\ res' = constrain_aspect_ratio(bc, args.a, res.size.width)
    /\ prev' = res
    /\ args' = Args2(args.a, res.size.width)
    /\ op' = "reapply"
    /\ UNCHANGED <<bc, bc_valid, old>>
    /\ UNCHANGED treevars

ImageLayout ==
    /\ op = "start"
    /\ \E object_fit \in ObjectFit, w, h \in ImageDims :
        /\ res' = layout(object_fit, w, h, bc)
        /\ args' = [NoArgs EXCEPT !.a = Num(w), !.b = Num(h), !.fit = object_fit]
    /\ op' = "layout"
    /\ UNCHANGED <<bc, bc_valid, prev, old>>
    /\ UNCHANGED treevars

NextLayout == Constrain \/ ConstrainAspectRatio \/ Reapply \/ ImageLayout

SpecLayout == InitLayout /\ [][NextLayout]_vars

----------------------------------------------------------------------------
(* The passes over the widget tree *)

Init == BcStart /\ parent \in TreeShapes /\ TreeCreated

\* ...Ctx::mutate_later / mutate_self_later: push onto the pending list
mutate_later(id, token) ==
    /\ mutate_callbacks' = Append(mutate_callbacks, MutateCallback(id, token))
    /\ enqueued' = Append(enqueued, token)
    /\ drain_enq' = IF pc = "mutate" THEN Append(drain_enq, token) ELSE drain_enq
    /\ next_token' = token

\* mutate_widget returns without a word when the id is not in the arena
mutate_widget_skip_missing(id, token, f, issued) ==
    IF id \notin Nodes
    THEN /\ pc' = pc
         /\ next_token' = issued
         /\ mutated' = 0
         /\ call' = [id |-> id, token |-> token, ret |-> 0]
         /\ UNCHANGED <<widget, request, needs, mutate_callbacks, executed, enqueued, drain_enq>>
    ELSE /\ widget' = [widget EXCEPT ![id] = token]
         /\ request' = [request EXCEPT ![id] = @ \cup f.req]
         /\ needs' = merge_up_to_root([needs EXCEPT ![id] = @ \cup f.req], id)
         /\ executed' = Append(executed, [token |-> token, id |-> id])
         /\ IF f.later # 0
            THEN mutate_later(f.later, issued + 1)
            ELSE /\ next_token' = issued
                 /\ UNCHANGED <<mutate_callbacks, enqueued, drain_enq>>
         /\ mutated' = id
         /\ call' = [id |-> id, token |-> token, ret |-> ReturnValue(token)]
         /\ pc' = pc

\* mutate_widget hands the closure the root of the tree instead of widget id
mutate_widget_on_root(id, token, f, issued) ==
    IF id \notin Nodes
    THEN /\ pc' = "panicked"
         /\ next_token' = issued
         /\ mutated' = 0
         /\ call' = [id |-> id, token |-> token, ret |-> 0]
         /\ UNCHANGED <<widget, request, needs, mutate_callbacks, executed, enqueued, drain_enq>>
    ELSE /\ widget' = [widget EXCEPT ![1] = token]
         /\ request' = [request EXCEPT ![1] = @ \cup f.req]
         /\ needs' = merge_up_to_root([needs EXCEPT ![1] = @ \cup f.req], id)
         /\ executed' = Append(executed, [token |-> token, id |-> 1])
         /\ IF f.later # 0
            THEN mutate_later(f.later, issued + 1)
            ELSE /\ next_token' = issued
                 /\ UNCHANGED <<mutate_callbacks, enqueued, drain_enq>>
         /\ mutated' = id
         /\ call' = [id |-> id, token |-> token, ret |-> ReturnValue(token)]
         /\ pc' = pc

\* mutate_widget(root, id, mutate_fn): mutate_fn is closure `token`, which
\* behaves as f; `issued` counts the closures created before it runs.
mutate_widget(id, token, f, issued) ==
    IF id \notin Nodes
    THEN \* get_all_mut panics
         /\ pc' = "panicked"
         /\ next_token' = issued
         /\ mutated' = 0
         /\ call' = [id |-> id, token |-> token, ret |-> 0]
         /\ UNCHANGED <<widget, request, needs, mutate_callbacks, executed, enqueued, drain_enq>>
    ELSE /\ widget' = [widget EXCEPT ![id] = token]
         /\ request' = [request EXCEPT ![id] = @ \cup f.req]
         /\ needs' = merge_up_to_root([needs EXCEPT ![id] = @ \cup f.req], id)
         /\ executed' = Append(executed, [token |-> token, id |-> id])
         /\ IF f.later # 0
            THEN mutate_later(f.later, issued + 1)
            ELSE /\ next_token' = issued
                 /\ UNCHANGED <<mutate_callbacks, enqueued, drain_enq>>
         /\ mutated' = id
         /\ call' = [id |-> id, token |-> token, ret |-> ReturnValue(token)]
         /\ pc' = pc

\* the driver's direct, synchronous mutation of one widget, outside any pass
DirectMutate ==
    /\ pc = "idle"
    /\ next_token < MaxMutations
    /\ \E id \in WidgetIds : \E f \in Closures(id) :
        /\ f.later # 0 => next_token + 1 < MaxMutations
        /\ mutate_widget(id, next_token + 1, f, next_token + 1)
    /\ UNCHANGED <<parent, callbacks, cursor, taken, prev_drain_enq, pass_start, layout_enq,
                   earlier_layout_enq, snapshot>>
    /\ UNCHANGED bcvars

\* an event or update handler defers a mutation between two cycles
MutateLater ==
    /\ pc = "idle"
    /\ next_token < MaxMutations
    /\ \E id \in WidgetIds : mutate_later(id, next_token + 1)
    /\ mutated' = 0 /\ call' = NoCall
    /\ UNCHANGED <<parent, widget, request, needs, callbacks, pc, cursor, executed, taken, prev_drain_enq,
                   pass_start, layout_enq, earlier_layout_enq, snapshot>>
    /\ UNCHANGED bcvars

\* run_mutate_pass keeps the pending list while it drains it
RunMutatePassCopy ==
    /\ pc = "idle"
    /\ callbacks' = mutate_callbacks
    /\ taken' = Tokens(mutate_callbacks)
    /\ prev_drain_enq' = drain_enq
    /\ drain_enq' = <<>>
    /\ pass_start' = Len(executed)
    /\ pc' = "mutate"
    /\ mutated' = 0 /\ call' = NoCall
    /\ UNCHANGED <<parent, widget, request, needs, mutate_callbacks, cursor, next_token,
                   executed, enqueued, layout_enq, earlier_layout_enq, snapshot>>
    /\ UNCHANGED bcvars

\* run_mutate_pass, line 62: std::mem::take(&mut root.global_state.mutate_callbacks)
RunMutatePassTake ==
    /\ pc = "idle"
    /\ callbacks' = mutate_callbacks
    /\ mutate_callbacks' = <<>>
    /\ taken' = Tokens(mutate_callbacks)
    /\ prev_drain_enq' = drain_enq
    /\ drain_enq' = <<>>
    /\ pass_start' = Len(executed)
    /\ pc' = "mutate"
    /\ mutated' = 0 /\ call' = NoCall
    /\ UNCHANGED <<parent, widget, request, needs, cursor, next_token, executed, enqueued,
                   layout_enq, earlier_layout_enq, snapshot>>
    /\ UNCHANGED bcvars

\* run_mutate_pass, lines 63-65: one turn of the loop
RunCallback ==
    /\ pc = "mutate"
    /\ callbacks # <<>>
    /\ LET callback == Head(callbacks)
       IN  \E f \in Closures(callback.id) :
            /\ f.later # 0 => next_token < MaxMutations
            /\ mutate_widget(callback.id, callback.token, f, next_token)
    /\ callbacks' = Tail(callbacks)
    /\ UNCHANGED <<parent, cursor, taken, prev_drain_enq, pass_start, layout_enq, earlier_layout_enq, snapshot>>
    /\ UNCHANGED bcvars

\* run_mutate_pass returns once a callback has run, dropping the rest
RunMutatePassReturnEarly ==
    /\ pc = "mutate"
    /\ callbacks = <<>> \/ Len(callbacks) < Len(taken)
    /\ callbacks' = <<>>
    /\ pc' = "mutated"
    /\ mutated' = 0 /\ call' = NoCall
    /\ UNCHANGED <<parent, widget, request, needs, mutate_callbacks, cursor, next_token,
                   executed, enqueued, drain_enq, taken, prev_drain_enq, pass_start, layout_enq, earlier_layout_enq,
                   snapshot>>
    /\ UNCHANGED bcvars

\* run_mutate_pass goes round again while its callbacks have left mutations
\* pending, and returns only when none is
RunMutatePassUntilNonePending ==
    /\ pc = "mutate"
    /\ callbacks = <<>>
    /\ IF mutate_callbacks # <<>>
       THEN /\ callbacks' = mutate_callbacks
            /\ mutate_callbacks' = <<>>
            /\ pc' = pc
       ELSE /\ pc' = "mutated"
            /\ UNCHANGED <<mutate_callbacks, callbacks>>
    /\ mutated' = 0 /\ call' = NoCall
    /\ UNCHANGED <<parent, widget, request, needs, cursor, next_token, executed, enqueued,
                   drain_enq, taken, prev_drain_enq, pass_start, layout_enq,
                   earlier_layout_enq, snapshot>>
    /\ UNCHANGED bcvars

\* run_mutate_pass, line 66: the loop is over, the pass returns
RunMutatePassReturn ==
    /\ pc = "mutate"
    /\ callbacks = <<>>
    /\ pc' = "mutated"
    /\ mutated' = 0 /\ call' = NoCall
    /\ UNCHANGED <<parent, widget, request, needs, mutate_callbacks, callbacks, cursor,
                   next_token, executed, enqueued, drain_enq, taken, prev_drain_enq, pass_start, layout_enq,
                   earlier_layout_enq, snapshot>>
    /\ UNCHANGED bcvars

\* the layout pass follows the mutate pass
LayoutBegin ==
    /\ pc = "mutated"
    /\ pc' = "layout"
    /\ cursor' = 1
    /\ earlier_layout_enq' = earlier_layout_enq \cup layout_enq
    /\ layout_enq' = {}
    /\ snapshot' = [widget |-> widget, request |-> request, needs |-> needs]
    /\ mutated' = 0 /\ call' = NoCall
    /\ UNCHANGED <<parent, widget, request, needs, mutate_callbacks, callbacks, next_token,
                   executed, enqueued, drain_enq, taken, prev_drain_enq, pass_start>>
    /\ UNCHANGED bcvars

\* the layout pass reaches a widget: one that needs no layout is skipped; the
\* layout of another clears its flag and may defer a mutation of the widget or
\* of one of its children
LayoutVisit ==
    /\ pc = "layout"
    /\ cursor <= NumNodes
    /\ cursor' = cursor + 1
    /\ IF "layout" \notin needs[cursor]
       THEN UNCHANGED <<request, needs, mutate_callbacks, enqueued, drain_enq, next_token, layout_enq>>
       ELSE /\ request' = [request EXCEPT ![cursor] = @ \ {"layout"}]
            /\ needs' = [needs EXCEPT ![cursor] = @ \ {"layout"}]
            /\ \E id \in {0, cursor} \cup children(cursor) :
                IF id = 0
                THEN UNCHANGED <<mutate_callbacks, enqueued, drain_enq, next_token, layout_enq>>
                ELSE /\ next_token < MaxMutations
                     /\ mutate_later(id, next_token + 1)
                     /\ layout_enq' = layout_enq \cup {next_token + 1}
    /\ mutated' = 0 /\ call' = NoCall
    /\ UNCHANGED <<parent, widget, callbacks, pc, executed, taken, prev_drain_enq, pass_start,
                   earlier_layout_enq, snapshot>>
    /\ UNCHANGED bcvars

LayoutEnd ==
    /\ pc = "layout"
    /\ cursor > NumNodes
    /\ pc' = "paint"
    /\ cursor' = 0
    /\ mutated' = 0 /\ call' = NoCall
    /\ UNCHANGED <<parent, widget, request, needs, mutate_callbacks, callbacks, next_token,
                   executed, enqueued, drain_enq, taken, prev_drain_enq, pass_start, layout_enq, earlier_layout_enq,
                   snapshot>>
    /\ UNCHANGED bcvars

\* the paint pass clears the paint flags of the whole tree and ends the cycle
PaintPass ==
    /\ pc = "paint"
    /\ request' = [n \in Nodes |-> request[n] \ {"paint"}]
    /\ needs' = [n \in Nodes |-> needs[n] \ {"paint"}]
    /\ pc' = "idle"
    /\ mutated' = 0 /\ call' = NoCall
    /\ UNCHANGED <<parent, widget, mutate_callbacks, callbacks, cursor, next_token, executed,
                   enqueued, drain_enq, taken, prev_drain_enq, pass_start, layout_enq, earlier_layout_enq, snapshot>>
    /\ UNCHANGED bcvars

Next ==
    \/ DirectMutate
    \/ MutateLater
    \/ RunMutatePassTake
    \/ RunCallback
    \/ RunMutatePassReturn
    \/ LayoutBegin
    \/ LayoutVisit
    \/ LayoutEnd
    \/ PaintPass

Spec == Init /\ [][Next]_vars

\* A run that begins between two cycles with two mutations already deferred,
\* one of the root and one of the deepest widget of a chain; their closures
\* were created before the run and are named -2 and -1.
InitDrain ==
    /\ BcStart
    /\ parent = [n \in Nodes |-> n - 1]
    /\ widget = [n \in Nodes |-> 0]
    /\ request = [n \in Nodes |-> Kinds]
    /\ needs = [n \in Nodes |-> Kinds]
    /\ mutate_callbacks = <<MutateCallback(1, -2), MutateCallback(NumNodes, -1)>>
    /\ callbacks = <<>>
    /\ pc = "idle"
    /\ cursor = 0
    /\ next_token = 0
    /\ executed = <<>>
    /\ enqueued = <<-2, -1>>
    /\ taken = <<>>
    /\ pass_start = 0
    /\ layout_enq = {}
    /\ earlier_layout_enq = {}
    /\ snapshot = [widget |-> widget, request |-> request, needs |-> needs]
    /\ mutated = 0
    /\ call = NoCall
    /\ drain_enq = <<>>
    /\ prev_drain_enq = <<>>

SpecDrain == InitDrain /\ [][Next]_vars

----------------------------------------------------------------------------
(* Properties of mutate_widget and run_mutate_pass *)

\* the aggregated flags of n are the OR of its local flags and of the flags,
\* local and aggregated, of all its descendants
AggregatedIsOr(n) ==
    \A k \in Kinds :
        k \in needs[n] <=>
            \/ k \in request[n]
            \/ \E d \in Descendants(n) : k \in request[d] \/ k \in needs[d]

\* C1: when mutate_widget(id, f) has returned, every widget on the path from
\* the target to the root has each aggregated flag equal to the OR of its own
\* local flag and the flags of all its descendants.
C1_MergeUpInvariant ==
    mutated # 0 => \A n \in PathToRoot(mutated) : AggregatedIsOr(n)

\* a grandchild was mutated when the whole tree was valid: the layout request
\* of its closure is the only local flag, and it reached the root
C1_Witness ==
    /\ mutated = 3
    /\ parent[3] = 2
    /\ request = [n \in Nodes |-> IF n = 3 THEN {"layout"} ELSE {}]
    /\ needs[1] = {"layout"}

\* the closures run since the last run_mutate_pass began, in order
PassLog == SubSeq(Tokens(executed), pass_start + 1, Len(executed))

Occurrences(seq, x) == Cardinality({i \in DOMAIN seq : seq[i] = x})

\* the deferred closures that have run, in the order they ran
DeferredExecuted ==
    LET IsDeferred(t) == \E i \in DOMAIN enqueued : enqueued[i] = t
    IN  SelectSeq(Tokens(executed), IsDeferred)

\* C2 (as stated): when run_mutate_pass returns, every deferred mutation that
\* has been enqueued has run exactly once, in enqueue order.
C2_AllEnqueuedRanInOrder ==
    pc = "mutated" => DeferredExecuted = enqueued

\* C2 (amended): when run_mutate_pass returns, every deferred mutation that
\* was pending when it was called has run exactly once, and they ran in
\* enqueue order.
C2_PendingRanOnceInOrder ==
    pc = "mutated" =>
        /\ PassLog = taken
        /\ \A i \in DOMAIN taken : Occurrences(Tokens(executed), taken[i]) = 1

\* a pass that found two pending mutations has run them, first the first
C2_Witness ==
    /\ pc = "mutated"
    /\ taken = <<1, 2>>
    /\ PassLog = <<1, 2>>

\* C3: a mutation deferred during a layout pass has not run, and has changed no
\* widget and no flag of a widget still to be laid out, while that layout
\* pass is under way; and it has run before the next layout pass begins.
C3_DeferredAfterLayoutBeforeNext ==
    pc = "layout" =>
        /\ \A t \in layout_enq : Occurrences(Tokens(executed), t) = 0
        /\ widget = snapshot.widget
        /\ \A n \in cursor..NumNodes :
            request[n] = snapshot.request[n] /\ needs[n] = snapshot.needs[n]
        /\ \A t \in earlier_layout_enq : Occurrences(Tokens(executed), t) = 1

\* a layout pass under way has deferred a mutation, while the widget it
\* revisits holds what a mutation deferred by the layout pass before wrote
C3_Witness ==
    /\ pc = "layout"
    /\ layout_enq # {}
    /\ \E n \in Nodes : widget[n] \in earlier_layout_enq

\* C11: a mutate_widget call with an id that is not in the arena, made directly
\* or by run_mutate_pass for a callback it drained, aborts: it returns nothing,
\* its closure is not invoked, no widget is touched by it, and neither the
\* caller nor the rest of the drain carries on.
C11_MissingIdAborts ==
    (call.id # 0 /\ call.id \notin Nodes) =>
        /\ pc = "panicked"
        /\ call.ret = 0
        /\ Occurrences(Tokens(executed), call.token) = 0
        /\ \A n \in Nodes : widget[n] # call.token
        /\ ~ENABLED Next

\* run_mutate_pass met a stale id in the first of two drained callbacks: the
\* second was left unrun
C11_Witness ==
    /\ pc = "panicked"
    /\ call.id = StaleId
    /\ taken = <<1, 2>>
    /\ Len(callbacks) = 1
    /\ executed = <<>>

\* C13: when mutate_widget(id, f) is called with the id of a widget of the
\* tree, at whatever depth, f has been invoked exactly once, on that widget
\* and on no other, and the call has returned what f returned.
C13_ClosureRunsOnceOnTarget ==
    call.id \in Nodes =>
        /\ pc # "panicked"
        /\ Occurrences(Tokens(executed), call.token) = 1
        /\ executed[Len(executed)] = [token |-> call.token, id |-> call.id]
        /\ \A n \in Nodes : widget[n] = call.token <=> n = call.id
        /\ call.ret = ReturnValue(call.token)

\* the second closure was run on a grandchild of the root, after the first
\* was run on another widget
C13_Witness ==
    /\ call.id = 3 /\ parent[3] = 2 /\ parent[2] = 1
    /\ call.token = 2 /\ call.ret = ReturnValue(2)
    /\ widget[3] = 2
    /\ \E n \in {1, 2} : widget[n] = 1

\* C16: run_mutate_pass has emptied the pending list before it runs the first
\* callback; the mutations its callbacks enqueue are not run by that call, and
\* throughout the call and when it returns they are exactly what the pending
\* list holds, in enqueue order; the next run_mutate_pass call runs them,
\* in that order, before anything else.
C16_DrainEnqueuedRunNextPass ==
    /\ (pc = "mutate" /\ Len(executed) = pass_start) => mutate_callbacks = <<>>
    /\ pc \in {"mutate", "mutated"} =>
        /\ Tokens(mutate_callbacks) = drain_enq
        /\ \A i \in DOMAIN drain_enq : Occurrences(Tokens(executed), drain_enq[i]) = 0
    /\ pc = "mutated" =>
        /\ Len(PassLog) >= Len(prev_drain_enq)
        /\ SubSeq(PassLog, 1, Len(prev_drain_enq)) = prev_drain_enq
        /\ \A i \in DOMAIN prev_drain_enq :
            Occurrences(Tokens(executed), prev_drain_enq[i]) = 1

\* both callbacks of the first pass deferred a mutation, and neither ran in
\* that pass: the second pass has run the two, in the order they were enqueued
C16_Witness ==
    /\ pc = "mutated"
    /\ Tokens(executed) = <<-2, -1, 1, 2>>
    /\ prev_drain_enq = <<1, 2>>
    /\ PassLog = <<1, 2>>

----------------------------------------------------------------------------
(* Properties of BoxConstraints and Image::layout *)

\* 0 <= min <= max with a finite minimum: what debug_check accepts
WellFormed(b) ==
    /\ NonNegOrdered(b.min, b.max)
    /\ is_finite(b.min.width) /\ is_finite(b.min.height)

ValidInput(x) == is_finite(x) /\ Le(Num(0), x)

\* C4: for constraints with min <= max on both axes, constrain(s) returns a
\* size within [min, max] on both axes, whatever the size s.
C4_ConstrainWithinBounds ==
    (op = "constrain" /\ Le(bc.min.width, bc.max.width) /\ Le(bc.min.height, bc.max.height))
        => /\ ~res.panicked
           /\ Le(bc.min.width, res.size.width) /\ Le(res.size.width, bc.max.width)
           /\ Le(bc.min.height, res.size.height) /\ Le(res.size.height, bc.max.height)

\* a width above a finite maximum was clamped down to it, a height below the
\* minimum was raised to it
C4_Witness ==
    /\ op = "constrain"
    /\ WellFormed(bc)
    /\ Lt(bc.max.width, args.a) /\ res.size.width = bc.max.width
    /\ Lt(args.b, bc.min.height) /\ res.size.height = bc.min.height

\* C5: for well-formed constraints and finite non-negative aspect_ratio and
\* width, constrain_aspect_ratio returns a size the constraints contain.
C5_AspectRatioResultContained ==
    (op = "constrain_aspect_ratio" /\ WellFormed(bc)
        /\ ValidInput(args.a) /\ ValidInput(args.b))
        => (~res.panicked /\ contains(bc, res.size))

\* |height / width - aspect_ratio|
RatioDistance(size, aspect_ratio) == abs(Sub(Div(size.height, size.width), aspect_ratio))

\* sizes on the half-integer grid that the constraints contain and that have a ratio
GridSizes(b) ==
    {s \in {Size(Frac(i, 2), Frac(j, 2)) : i, j \in 0..(2 * (MaxCoord + 1))} :
        contains(b, s) /\ ~is_nan(Div(s.height, s.width))}

\* C6: constrain_aspect_ratio returns a size in the box whose ratio is as close
\* to aspect_ratio as that of any size in the box, and among the sizes with
\* that ratio the one whose width is nearest to the requested width.  Stated
\* for the calls whose result is in the box (that it is, is C5) and has a
\* ratio (a size of zero width and height has none).
C6_ClosestRatioNearestWidth ==
    (op = "constrain_aspect_ratio" /\ WellFormed(bc)
        /\ ValidInput(args.a) /\ ValidInput(args.b)
        /\ ~res.panicked /\ contains(bc, res.size)
        /\ ~is_nan(Div(res.size.height, res.size.width)))
        => \A s \in GridSizes(bc) :
            /\ Le(RatioDistance(res.size, args.a), RatioDistance(s, args.a))
            /\ RatioDistance(res.size, args.a) = RatioDistance(s, args.a)
                  => Le(abs(Sub(res.size.width, args.b)), abs(Sub(s.width, args.b)))

\* C7: when the ideal size (width, width * aspect_ratio) is contained in the
\* constraints, constrain_aspect_ratio returns exactly it.
C7_IdealSizeReturned ==
    (op = "constrain_aspect_ratio" /\ ValidInput(args.a) /\ ValidInput(args.b)
        /\ contains(bc, Size(args.b, Mul(args.b, args.a))))
        => res = Ok(Size(args.b, Mul(args.b, args.a)))

\* an ideal size strictly inside the box, away from every corner and edge
C7_Witness ==
    /\ op = "constrain_aspect_ratio"
    /\ args.a = Num(2) /\ args.b = Num(1)
    /\ bc.min = ZERO /\ bc.max = Size(Num(MaxCoord), Num(MaxCoord))
    /\ res = Ok(Size(Num(1), Num(2)))

\* C8: re-applying constrain_aspect_ratio with the returned width and the same
\* ratio returns the same size again, when the first result lies in the box.
C8_Idempotent ==
    (op = "reapply" /\ WellFormed(bc)) => (~res.panicked /\ res = prev)

\* C9: for every ObjectFit mode, image size and well-formed constraints, the
\* size Image::layout returns satisfies the constraints.
C9_ImageLayoutContained ==
    (op = "layout" /\ WellFormed(bc)) => (~res.panicked /\ contains(bc, res.size))

\* C10 (as stated): every BoxConstraints value obtainable through new, tight,
\* UNBOUNDED, loosen and shrink has 0 <= min <= max on both axes.
C10_AlwaysOrdered == NonNegOrdered(bc.min, bc.max)

\* C10 (amended): a value built by new from arguments with 0 <= min <= max, by
\* tight from a non-negative size, or UNBOUNDED, and any value loosen and
\* shrink make of it, has 0 <= min <= max on both axes.
C10_OrderedFromValidArguments == bc_valid => NonNegOrdered(bc.min, bc.max)

\* shrink took a positive minimum and maximum below zero and floored them
C10_Witness ==
    /\ op = "shrink"
    /\ bc_valid
    /\ args.a = Num(2)
    /\ old.min.width = Num(1) /\ old.max.width = Num(1)
    /\ bc.min.width = Num(0) /\ bc.max.width = Num(0)

C14_LoosenZeroMinSameMax ==
    op = "loosen" => (bc.min = Size(Num(0), Num(0)) /\ bc.max = old.max)

\* constraints with a positive minimum and a maximum unbounded on one axis
C14_Witness ==
    /\ op = "loosen"
    /\ old = [min |-> Size(Num(2), Num(1)), max |-> Size(Num(3), INFINITY)]
    /\ bc = [min |-> Size(Num(0), Num(0)), max |-> Size(Num(3), INFINITY)]

\* x rounded away from zero: the whole number of the sign of x that is at
\* least as far from zero as x and less than 1 farther
AwayFromZero(x) ==
    IF ~is_finite(x) THEN x
    ELSE Num(CHOOSE k \in (-(MaxCoord + 2))..(MaxCoord + 2) :
                /\ Sign(Num(k)) = Sign(x)
                /\ Le(abs(x), abs(Num(k)))
                /\ Lt(Sub(abs(Num(k)), abs(x)), Num(1)))

\* x where x is above zero, zero otherwise
FlooredAtZero(x) == IF Lt(Num(0), x) THEN x ELSE Num(0)

\* C15: each of the four components of c.shrink(delta) is the component of c
\* minus delta rounded away from zero on that axis, floored at zero.
C15_ShrinkSubtractsRoundedDelta ==
    op = "shrink" =>
        /\ bc.min.width = FlooredAtZero(Sub(old.min.width, AwayFromZero(args.a)))
        /\ bc.min.height = FlooredAtZero(Sub(old.min.height, AwayFromZero(args.b)))
        /\ bc.max.width = FlooredAtZero(Sub(old.max.width, AwayFromZero(args.a)))
        /\ bc.max.height = FlooredAtZero(Sub(old.max.height, AwayFromZero(args.b)))

\* a width delta of 1/2 took 1 from both widths, a height delta of 2 took the
\* minimum height to the floor
C15_Witness ==
    /\ op = "shrink"
    /\ args.a = Frac(1, 2) /\ args.b = Num(2)
    /\ old = [min |-> Size(Num(2), Num(1)), max |-> Size(Num(3), Num(3))]
    /\ bc = [min |-> Size(Num(1), Num(0)), max |-> Size(Num(2), Num(1))]

====
